---------------------------- MODULE Spec2Model ----------------------------
(***************************************************************************)
(* The page store of the wiki: Page.Save, mkSubDir and LoadPage, run by    *)
(* concurrent request workers against one filesystem.                      *)
(*                                                                         *)
(* A Go string is modelled as a sequence of one-character strings, so that *)
(* len(s) and the slice s[0:n] of mkSubDir are computed character by       *)
(* character, as the code computes them.                                   *)
(***************************************************************************)
EXTENDS Naturals, Sequences, FiniteSets

(***************************************************************************)
(* Bounds of the model.                                                    *)
(***************************************************************************)
MaxRequests == 2

Workers == {"w1", "w2"}

(***************************************************************************)
(* config.go: the extension appended to every title.                       *)
(***************************************************************************)
FileExtension == <<".", "m", "d">>

(***************************************************************************)
(* Package path of the Go standard library, as used by the code.           *)
(***************************************************************************)
DotDot == <<".", ".">>

RECURSIVE SplitSlash(_)
SplitSlash(s) ==
    IF \A i \in 1..Len(s) : s[i] # "/"
    THEN <<s>>
    ELSE LET i == CHOOSE k \in 1..Len(s) :
                     s[k] = "/" /\ \A j \in 1..(k - 1) : s[j] # "/"
         IN  <<SubSeq(s, 1, i - 1)>> \o SplitSlash(SubSeq(s, i + 1, Len(s)))

RECURSIVE JoinSlash(_)
JoinSlash(elems) ==
    IF elems = <<>> THEN <<>>
    ELSE IF Len(elems) = 1 THEN elems[1]
    ELSE elems[1] \o <<"/">> \o JoinSlash(Tail(elems))

\* The element loop of path.Clean: empty and "." elements are dropped, ".."
\* removes the element before it, is dropped at the root of a rooted path
\* and is kept at the front of a relative one.
RECURSIVE CleanElems(_, _, _)
CleanElems(elems, out, rooted) ==
    IF elems = <<>> THEN out
    ELSE LET e    == Head(elems)
             rest == Tail(elems)
         IN  IF e = <<>> \/ e = <<".">>
             THEN CleanElems(rest, out, rooted)
             ELSE IF e = DotDot
             THEN IF out # <<>> /\ out[Len(out)] # DotDot
                  THEN CleanElems(rest, SubSeq(out, 1, Len(out) - 1), rooted)
                  ELSE IF rooted
                  THEN CleanElems(rest, out, rooted)
                  ELSE CleanElems(rest, Append(out, e), rooted)
             ELSE CleanElems(rest, Append(out, e), rooted)

Clean(p) ==
    IF p = <<>> THEN <<".">>
    ELSE LET rooted == p[1] = "/"
             out    == CleanElems(SplitSlash(p), <<>>, rooted)
         IN  IF rooted THEN <<"/">> \o JoinSlash(out)
             ELSE IF out = <<>> THEN <<".">>
             ELSE JoinSlash(out)

\* path.Join of two elements: empty elements are ignored, the rest is joined
\* with a slash and cleaned.
Join(a, b) ==
    IF a = <<>> /\ b = <<>> THEN <<>>
    ELSE IF a = <<>> THEN Clean(b)
    ELSE IF b = <<>> THEN Clean(a)
    ELSE Clean(a \o <<"/">> \o b)

LastSlash(p) ==
    IF \E i \in 1..Len(p) : p[i] = "/"
    THEN CHOOSE i \in 1..Len(p) :
             p[i] = "/" /\ \A j \in (i + 1)..Len(p) : p[j] # "/"
    ELSE 0

\* path.Dir: everything up to and including the last slash, cleaned.
Dir(p) == Clean(SubSeq(p, 1, LastSlash(p)))


\* strings.TrimLeft(s, "/")
RECURSIVE TrimLeft(_)
TrimLeft(s) ==
    IF s # <<>> /\ Head(s) = "/" THEN TrimLeft(Tail(s)) ELSE s

(***************************************************************************)
(* Inputs: the data directories of the configuration, the title parameters *)
(* of the routes /save/*title and /view/*title (the router hands them over *)
(* with their leading slash) and the bodies of the save form.              *)
(***************************************************************************)
\* "/data"
RootAbs == <<"/", "d", "a", "t", "a">>
\* "./data/"
RootRel == <<".", "/", "d", "a", "t", "a", "/">>

Roots == {RootAbs, RootRel}

\* "/P"
pPage == <<"/", "P">>
\* "/sub/P"
pSubPage == <<"/", "s", "u", "b", "/", "P">>
\* "/../data-evil/P"
pSibling == <<"/", ".", ".", "/", "d", "a", "t", "a", "-", "e", "v", "i", "l", "/", "P">>
\* "/../../etc/passwd"
pEtcPasswd == <<"/", ".", ".", "/", ".", ".", "/", "e", "t", "c", "/", "p", "a", "s", "s", "w", "d">>
\* "/sub/../P"
pAlias == <<"/", "s", "u", "b", "/", ".", ".", "/", "P">>
\* "/P.md/x"
pClash == <<"/", "P", ".", "m", "d", "/", "x">>

Params == {pPage, pSubPage, pSibling, pEtcPasswd, pAlias, pClash}

\* "aa"
B1 == <<"a", "a">>
\* "b"
B2 == <<"b">>

Bodies == {B1, B2}

\* "ccc", the content of a page saved before the server started
OldBody == <<"c", "c", "c">>

\* "ddd", the content of a file that is not a page of this wiki
ForeignBody == <<"d", "d", "d">>

(***************************************************************************)
(* The filesystem: the set of directories and the content of every file.   *)
(***************************************************************************)
RECURSIVE AncestorsAndSelf(_)
AncestorsAndSelf(p) ==
    IF Dir(p) = p THEN {p} ELSE {p} \cup AncestorsAndSelf(Dir(p))

\* The content of file p as a set: empty when there is no such file.
FileAt(fs, p) == IF p \in DOMAIN fs THEN {fs[p]} ELSE {}

PutFile(fs, p, content) ==
    [q \in DOMAIN fs \cup {p} |-> IF q = p THEN content ELSE fs[q]]

\* A write of data at offset 0 of a file holding old: the bytes of old
\* beyond the data stay.
WriteAt0(old, data) ==
    IF Len(old) > Len(data)
    THEN data \o SubSeq(old, Len(data) + 1, Len(old))
    ELSE data

\* os.Mkdir in place of os.MkdirAll: one directory is made, and it is an
\* error if it exists already or if its parent does not.
Mkdir(sd, ds, fs) ==
    IF sd \in ds \/ sd \in DOMAIN fs
    THEN {[err |-> "EEXIST", dirs |-> ds]}
    ELSE IF Dir(sd) \notin ds
    THEN {[err |-> "ENOENT", dirs |-> ds]}
    ELSE {[err |-> "nil", dirs |-> ds \cup {sd}],
          [err |-> "mkdir", dirs |-> ds]}

\* os.MkdirAll(sd): nil at once when sd is a directory, an error when sd or
\* one of its ancestors is a file; otherwise the missing directories are made
\* from the top down, and a mkdir that fails leaves those made before it.
MkdirAll(sd, ds, fs) ==
    LET chain   == AncestorsAndSelf(sd)
        missing == chain \ ds
        upTo(k) == {m \in missing :
                       Cardinality({n \in missing : Len(n) < Len(m)}) < k}
    IN  IF sd \in ds
        THEN {[err |-> "nil", dirs |-> ds]}
        ELSE IF chain \cap DOMAIN fs # {}
        THEN {[err |-> "ENOTDIR", dirs |-> ds]}
        ELSE {[err |-> "nil", dirs |-> ds \cup missing]}
             \cup {[err |-> "mkdir", dirs |-> ds \cup upTo(k)] :
                      k \in 0..(Cardinality(missing) - 1)}

PathEscapeError == "File in wrong directory"

\* mkSubDir(dir, file) on the filesystem (ds, fs): the set of its outcomes,
\* each the error returned ("panic" when the slice sd[0:len(d)] is out of
\* range) and the directories afterwards.
mkSubDir(dir, file, ds, fs) ==
    LET d  == Clean(dir)
        sd == Dir(Clean(Join(d, file)))
    IN  IF Len(d) > Len(sd)
        THEN {[err |-> "panic", dirs |-> ds]}
        ELSE IF SubSeq(sd, 1, Len(d)) # d
        THEN {[err |-> PathEscapeError, dirs |-> ds]}
        ELSE MkdirAll(sd, ds, fs)

\* Page.Save: filepath := path.Join(datadir, p.Title + FileExtension)
SavePath(datadir, title) == Join(datadir, title \o FileExtension)

\* The file name of LoadPage without the extension that Page.Save appends.
LoadPathNoExtension(datadir, title) == Join(datadir, title)

\* LoadPage: filename := path.Join(config.data, title + FileExtension)
LoadPath(datadir, title) == Join(datadir, title \o FileExtension)

(***************************************************************************)
(* State.                                                                  *)
(*   config    the configuration (its data directory), fixed at start      *)
(*   dirs      the directories of the filesystem                           *)
(*   files     the files of the filesystem, path |-> content               *)
(*   pc        where each request worker stands: "idle", or inside         *)
(*             ioutil.WriteFile before its OpenFile or before its Write    *)
(*   page      the Page of each worker's current (or last) request         *)
(*   res       how each worker's current (or last) request ended           *)
(*   nreq      the number of requests begun                                *)
(*   commits   the number of commits in the repository at the data root;   *)
(*             no handler stages or commits, so no action changes it       *)
(* History, kept for the properties only:                                  *)
(*   okSaves   the number of save requests that succeeded                  *)
(*   stored    path |-> the body of the last save of it that succeeded     *)
(*   fresh     the paths whose last save succeeded, none begun since       *)
(*   resolved  the titles mkSubDir has returned nil for                    *)
(***************************************************************************)
VARIABLES config, dirs, files, pc, page, res, nreq, commits,
          okSaves, stored, fresh, resolved

vars == <<config, dirs, files, pc, page, res, nreq, commits,
          okSaves, stored, fresh, resolved>>

\* A file beside the data directory, in a directory whose name begins with
\* the data directory's: "/data-evil/P.md" beside "/data".
ForeignPath(datadir) == SavePath(datadir, TrimLeft(pSibling))

\* Directories that exist before the wiki runs: the filesystem root, the
\* working directory and its parent, the data directory and the directory
\* beside it.
InitDirs(datadir) ==
    {<<"/">>, <<".">>, DotDot}
        \cup AncestorsAndSelf(Clean(datadir))
        \cup AncestorsAndSelf(Dir(ForeignPath(datadir)))

\* The files in place at start: none, or the page P saved by an earlier run
\* together with a file in the directory beside the data directory.
InitFiles(datadir) ==
    {<<>>,
     PutFile(PutFile(<<>>, SavePath(datadir, TrimLeft(pPage)), OldBody),
             ForeignPath(datadir), ForeignBody)}

NoPage == [Title |-> <<>>, Body |-> <<>>]
NoRes  == [op |-> "none", err |-> "nil"]

Init ==
    /\ config \in {[data |-> r] : r \in Roots}
    /\ dirs = InitDirs(config.data)
    /\ files \in InitFiles(config.data)
    /\ pc = [w \in Workers |-> "idle"]
    /\ page = [w \in Workers |-> NoPage]
    /\ res = [w \in Workers |-> NoRes]
    /\ nreq = 0
    /\ commits = 0
    /\ okSaves = 0
    /\ stored = files
    /\ fresh = DOMAIN files
    /\ resolved = {}

\* SaveHandler up to and including the mkSubDir call of Page.Save: the
\* title is the route parameter without its leading slashes; a panic or an
\* error ends the request (status 500), nil goes on to ioutil.WriteFile.
SaveHandler(w, param, body) ==
    /\ pc[w] = "idle"
    /\ nreq < MaxRequests
    /\ LET title    == TrimLeft(param)
           filename == title \o FileExtension
           filepath == SavePath(config.data, title)
       IN  /\ \E o \in mkSubDir(config.data, filename, dirs, files) :
                /\ dirs' = o.dirs
                /\ pc' = [pc EXCEPT ![w] = IF o.err = "nil" THEN "OpenFile"
                                                            ELSE "idle"]
                /\ res' = [res EXCEPT ![w] =
                             [op  |-> "save",
                              err |-> IF o.err = "nil" THEN "pending"
                                                       ELSE o.err]]
                /\ resolved' = IF o.err = "nil" THEN resolved \cup {title}
                                                ELSE resolved
           /\ page' = [page EXCEPT ![w] = [Title |-> title, Body |-> body]]
           /\ fresh' = fresh \ {filepath}
    /\ nreq' = nreq + 1
    /\ UNCHANGED <<config, files, commits, okSaves, stored>>

\* ioutil.WriteFile, first step: os.OpenFile(filename,
\* O_WRONLY|O_CREATE|O_TRUNC, 0600). It fails on a directory, on a missing
\* parent, or for a reason of the system's; otherwise the file exists and
\* is empty afterwards.
OpenFile(w) ==
    /\ pc[w] = "OpenFile"
    /\ LET filepath == SavePath(config.data, page[w].Title)
       IN  \E ok \in BOOLEAN :
             IF ok /\ filepath \notin dirs /\ Dir(filepath) \in dirs
             THEN /\ files' = PutFile(files, filepath, <<>>)
                  /\ pc' = [pc EXCEPT ![w] = "Write"]
                  /\ res' = res
             ELSE /\ files' = files
                  /\ pc' = [pc EXCEPT ![w] = "idle"]
                  /\ res' = [res EXCEPT ![w].err = "open"]
    /\ UNCHANGED <<config, dirs, page, nreq, commits, okSaves, stored, fresh,
                   resolved>>

\* ioutil.WriteFile, second step: f.Write(data) at offset 0 of the opened
\* file, then f.Close(). The write puts all of data, or fails after n bytes
\* of it (n < len(data)); Page.Save returns the error to SaveHandler, which
\* answers with a redirect (nil) or status 500.
Write(w) ==
    /\ pc[w] = "Write"
    /\ LET filepath == SavePath(config.data, page[w].Title)
           data     == page[w].Body
       IN  \E n \in 0..Len(data) :
             /\ files' = PutFile(files, filepath,
                                 WriteAt0(files[filepath], SubSeq(data, 1, n)))
             /\ IF n = Len(data)
                THEN /\ res' = [res EXCEPT ![w].err = "nil"]
                     /\ okSaves' = okSaves + 1
                     /\ stored' = PutFile(stored, filepath, data)
                     /\ fresh' = fresh \cup {filepath}
                ELSE /\ res' = [res EXCEPT ![w].err = "write"]
                     /\ UNCHANGED <<okSaves, stored, fresh>>
    /\ pc' = [pc EXCEPT ![w] = "idle"]
    /\ UNCHANGED <<config, dirs, page, nreq, commits, resolved>>

\* LoadPage(title, config, baseurl): the content of the file, or the error
\* of ioutil.ReadFile when there is no such file.
LoadPage(title, datadir, fs) ==
    LET filename == LoadPath(datadir, title)
    IN  IF filename \in DOMAIN fs
        THEN [err |-> "nil", Body |-> fs[filename]]
        ELSE [err |-> "ENOENT", Body |-> <<>>]

\* ViewHandler: LoadPage of the route parameter without its leading slashes;
\* the page is rendered, or on an error the client is sent to the editor.
\* (EditHandler reads the page through the same LoadPage call.)
ViewHandler(w, param) ==
    /\ pc[w] = "idle"
    /\ nreq < MaxRequests
    /\ LET title == TrimLeft(param)
           got   == LoadPage(title, config.data, files)
       IN  /\ page' = [page EXCEPT ![w] = [Title |-> title, Body |-> got.Body]]
           /\ res' = [res EXCEPT ![w] = [op |-> "view", err |-> got.err]]
    /\ nreq' = nreq + 1
    /\ UNCHANGED <<config, dirs, files, pc, commits, okSaves, stored, fresh,
                   resolved>>

Step(w) ==
    \/ \E param \in Params, body \in Bodies : SaveHandler(w, param, body)
    \/ OpenFile(w)
    \/ Write(w)
    \/ \E param \in Params : ViewHandler(w, param)

\* Requests are served by one goroutine each, in parallel.
Next == \E w \in Workers : Step(w)

Spec == Init /\ [][Next]_vars

\* One request at a time: a worker moves only while every other is idle.
NextSeq ==
    \E w \in Workers : (\A v \in Workers \ {w} : pc[v] = "idle") /\ Step(w)

SpecSeq == Init /\ [][NextSeq]_vars

(***************************************************************************)
(* Properties.                                                             *)
(***************************************************************************)
\* Path p lies below the data directory by whole path components.
Within(p, datadir) ==
    LET r == SplitSlash(Clean(datadir))
        q == SplitSlash(p)
    IN  Len(q) > Len(r) /\ SubSeq(q, 1, Len(r)) = r

HasDotDotSlash(title) ==
    \E i \in 1..Len(title) :
        i + 2 <= Len(title) /\ SubSeq(title, i, i + 2) = <<".", ".", "/">>

SaveInFlight(p) ==
    \E w \in Workers :
        pc[w] # "idle" /\ SavePath(config.data, page[w].Title) = p

\* C1: every file written and every directory created by a save is a
\* descendant of the normalized root by whole path components; a sibling
\* that only shares the root as a string prefix is not. So whatever lies
\* outside the root is as it was at start.
C1_WritesStayUnderRoot ==
    /\ \A p \in DOMAIN files :
          \/ Within(p, config.data)
          \/ p = ForeignPath(config.data) /\ files[p] = ForeignBody
    /\ \A d \in dirs \ InitDirs(config.data) : Within(d, config.data)

\* C2: a save whose title contains "../" and leads out of the root (such as
\* "../../etc/passwd" under "/data") ends with the PathEscapeError returned
\* by path resolution and changes neither the directories nor the files.
C2_TraversalTitlesRejected ==
    [][\A w \in Workers, param \in Params, body \in Bodies :
         LET title == TrimLeft(param)
         IN  (/\ res'[w].op = "save"
              /\ page'[w] = [Title |-> title, Body |-> body]
              /\ SaveHandler(w, param, body)
              /\ HasDotDotSlash(title)
              /\ ~Within(SavePath(config.data, title), config.data))
             => /\ res'[w].err = PathEscapeError
                /\ dirs' = dirs
                /\ files' = files]_vars

\* C3: no view ever returns the content of a file outside the root: a title
\* whose normalized path lies outside it is refused before any read.
C3_LoadStaysUnderRoot ==
    \A w \in Workers :
        (res[w].op = "view" /\ res[w].err = "nil")
        => Within(LoadPath(config.data, page[w].Title), config.data)

\* C4: with requests served one at a time, a view of a title whose file was
\* last saved successfully, no save of that file begun since, returns the
\* body of that save.
C4_SaveThenLoad ==
    [][\A w \in Workers, param \in Params :
         LET p == SavePath(config.data, TrimLeft(param))
         IN  (/\ res'[w].op = "view"
              /\ page'[w].Title = TrimLeft(param)
              /\ ViewHandler(w, param)
              /\ p \in fresh)
             => /\ res'[w].err = "nil"
                /\ page'[w].Body = stored[p]]_vars

\* C4 witness: a view has returned the body that a save of this run stored.
C4_Witness ==
    \E w \in Workers :
        LET p == SavePath(config.data, page[w].Title)
        IN  /\ res[w] = [op |-> "view", err |-> "nil"]
            /\ okSaves > 0
            /\ p \in fresh
            /\ stored[p] \in Bodies
            /\ page[w].Body = stored[p]

\* C5: with requests served one at a time, whenever no save of a file is
\* under way the file holds the body of the last save of it that succeeded
\* (and does not exist if there was none): a save that fails leaves the
\* stored content as it was, never an empty or partly written file.
C5_FailedSaveLeavesContent ==
    \A p \in DOMAIN files \cup DOMAIN stored :
        ~SaveInFlight(p) => FileAt(files, p) = FileAt(stored, p)

\* C6: once two concurrent saves of one title have both succeeded, the file
\* holds the body of one of them, never a mixture.
C6_ConcurrentSavesNoMixture ==
    \A w \in Workers : \A v \in Workers \ {w} :
        LET p == SavePath(config.data, page[w].Title)
        IN  (/\ pc[w] = "idle" /\ pc[v] = "idle"
             /\ res[w] = [op |-> "save", err |-> "nil"]
             /\ res[v] = [op |-> "save", err |-> "nil"]
             /\ SavePath(config.data, page[v].Title) = p)
            => files[p] \in {page[w].Body, page[v].Body}

\* C7: a view that runs while a save of the same file is under way returns
\* the complete content stored before the save or the complete new body.
C7_LoadSeesWholeContent ==
    [][\A w \in Workers : \A v \in Workers \ {w} : \A param \in Params :
         LET p == LoadPath(config.data, TrimLeft(param))
         IN  (/\ pc[v] # "idle"
              /\ res'[w].op = "view"
              /\ page'[w].Title = TrimLeft(param)
              /\ ViewHandler(w, param)
              /\ SavePath(config.data, page[v].Title) = p)
             => \/ /\ res'[w].err = "nil"
                   /\ {page'[w].Body} \in {FileAt(stored, p), {page[v].Body}}
                \/ /\ res'[w].err # "nil"
                   /\ FileAt(stored, p) = {}]_vars

\* C8: the number of commits in the repository equals the number of save
\* requests that succeeded.
C8_OneCommitPerSave == commits = okSaves

\* C9: when mkSubDir returns nil, the directory of the page's file and all
\* its ancestors exist; and for a title it has returned nil for before, it
\* returns nil again and leaves the directories as they were.
C9_DirsCreatedIdempotent ==
    [][\A w \in Workers, param \in Params, body \in Bodies :
         LET title == TrimLeft(param)
             sd    == Dir(SavePath(config.data, title))
         IN  (/\ res'[w].op = "save"
              /\ page'[w] = [Title |-> title, Body |-> body]
              /\ SaveHandler(w, param, body))
             => /\ pc'[w] = "OpenFile" => AncestorsAndSelf(sd) \subseteq dirs'
                /\ title \in resolved
                   => pc'[w] = "OpenFile" /\ dirs' = dirs]_vars

\* C9 witness: a hierarchical title has been resolved twice, and its
\* directory is one that mkSubDir created.
C9_Witness ==
    \E w \in Workers : \E v \in Workers \ {w} :
        /\ pc[w] = "OpenFile" /\ pc[v] = "OpenFile"
        /\ page[w].Title = page[v].Title
        /\ page[w].Title \in resolved
        /\ Dir(SavePath(config.data, page[w].Title))
              \in dirs \ InitDirs(config.data)

\* C10: mkSubDir always returns nil or an error; its slice of the candidate
\* directory is never out of range.
C10_NoSliceFault ==
    \A w \in Workers : res[w].err # "panic"

=============================================================================
